---- MODULE Spec2Model ----
(***************************************************************************)
(* OpenBob: the window tracking and time-accounting engine.                *)
(*                                                                         *)
(* TimeTracker (src/core/time_tracker.py) keeps a map hwnd -> WindowInfo   *)
(* (src/core/data_models.py) that a background thread reconciles against   *)
(* a window source once per cycle, while a controller calls start(),       *)
(* stop(), clear() and a consumer reads the records.                       *)
(*                                                                         *)
(* Time is an integer clock in units of WINDOW_ENUMERATION_INTERVAL        *)
(* (1.0 s).  The clock advances inside the operations that take time: the  *)
(* source call, time.sleep(), the bounded join of stop(), and between two  *)
(* successive datetime.now() calls of one statement sequence.              *)
(***************************************************************************)
EXTENDS Integers, Sequences, FiniteSets, TLC

VARIABLES
    now,                  \* the wall clock (time.time() and datetime.now())
    simulation_mode,      \* TimeTracker._simulation_mode
    simulation,           \* TimeTracker._simulation: the HouseSimulation
    windows,              \* TimeTracker._windows: hwnd -> WindowInfo
    lock,                 \* TimeTracker._lock: its holder, or NoThread
    running,              \* TimeTracker._running
    thread,               \* TimeTracker._thread: a loop thread, or NoThread
    last_update_time,     \* TimeTracker._last_update_time
    log,                  \* the last message start()/stop() logged
    ctl,                  \* the controller: "idle", or "joining" inside stop()
    join_deadline,        \* when the join of stop() times out
    pc,                   \* per loop thread: its position in _tracking_loop
    interval,             \* per loop thread: local `interval`
    current_windows_list, \* per loop thread: local `current_windows_list`
    active_hwnd,          \* per loop thread: local `active_hwnd`
    cycle,                \* per loop thread: how its last cycle ended
    reader,               \* the consumer: the records it was handed
    env                   \* the environment of one run: what the window
                          \* source can report and how the clock can advance

vars == <<now, simulation_mode, simulation, windows, lock, running, thread,
          last_update_time, log, ctl, join_deadline, pc, interval,
          current_windows_list, active_hwnd, cycle, reader, env>>

engineVars == <<env, simulation_mode, simulation, windows, lock, running, thread,
                last_update_time, log, ctl, join_deadline>>
localVars == <<interval, current_windows_list, active_hwnd>>

----------------------------------------------------------------------------
(* Bounds of the model *)

MaxTime == 2
\* How many calls are made on a HouseSimulation.
MaxCalls == 3

(* Program constants *)

WINDOW_ENUMERATION_INTERVAL == 1
JOIN_TIMEOUT == 2
MIN_PEOPLE == 2

Threads == {"T1", "T2"}
NoThread == "none"
None == "None"
\* The null window handle: "no focused window" (GetForegroundWindow() = 0).
NoHandle == 0
\* _last_update_time before the first start(): None (line 28), kept apart from
\* every clock reading.
NoTime == -1

Max(a, b) == IF a >= b THEN a ELSE b

----------------------------------------------------------------------------
(* WindowInfo *)

\* A record as the simulation branch constructs it, lines 168-176: the two
\* datetime.now() calls read the clock at t1 <= t2; the dataclass defaults
\* give total_open_time = active_time = timedelta().
NewSimWindow(e, is_currently_active, t1, t2) ==
    [hwnd |-> e.hwnd, title |-> e.title, process_name |-> e.process_name,
     first_seen |-> t1, last_seen |-> t2,
     total_open_time |-> 0, active_time |-> 0,
     is_active |-> is_currently_active, is_visible |-> TRUE]

\* A native branch that assigns the two clock readings the other way round.
NewNativeWindow_swapped(e, t1, t2) ==
    [hwnd |-> e.hwnd, title |-> e.title, process_name |-> e.process_name,
     first_seen |-> t2, last_seen |-> t1,
     total_open_time |-> 0, active_time |-> 0,
     is_active |-> e.is_active, is_visible |-> e.is_visible]

\* The source's own WindowInfo object inserted by the native branch, lines
\* 194-196: first_seen and last_seen are overwritten; the flags are the entry's.
NewNativeWindow(e, t1, t2) ==
    [hwnd |-> e.hwnd, title |-> e.title, process_name |-> e.process_name,
     first_seen |-> t1, last_seen |-> t2,
     total_open_time |-> 0, active_time |-> 0,
     is_active |-> e.is_active, is_visible |-> e.is_visible]

\* An update_times that credits the interval whether or not the window is
\* focused.
update_times_credits_always(w, ival, is_currently_active, t1, t2) ==
    [w EXCEPT !.last_seen = t1,
              !.total_open_time = t2 - w.first_seen,
              !.active_time = @ + ival,
              !.is_active = is_currently_active]

\* An update_times that subtracts the wrong way round.
update_times_reversed(w, ival, is_currently_active, t1, t2) ==
    [w EXCEPT !.last_seen = t1,
              !.total_open_time = w.first_seen - t2,
              !.active_time = IF is_currently_active THEN @ + ival ELSE @,
              !.is_active = is_currently_active]

\* An update_times that accumulates total_open_time from the intervals.
update_times_accumulates(w, ival, is_currently_active, t1, t2) ==
    [w EXCEPT !.last_seen = t1,
              !.total_open_time = @ + ival,
              !.active_time = IF is_currently_active THEN @ + ival ELSE @,
              !.is_active = is_currently_active]

\* WindowInfo.update_times: t1 and t2 are the two datetime.now() readings.
update_times(w, ival, is_currently_active, t1, t2) ==
    [w EXCEPT !.last_seen = t1,
              !.total_open_time = t2 - w.first_seen,
              !.active_time = IF is_currently_active THEN @ + ival ELSE @,
              !.is_active = is_currently_active]

\* hash() of a Python int n with |n| < 2^61 - 1, the range of window handles:
\* the int itself, except that hash(-1) is -2.
int_hash(n) == IF n = -1 THEN -2 ELSE n

\* A Python value: its class and its content.
PyValue(class, value) == [class |-> class, value |-> value]

\* isinstance(other, WindowInfo).
isinstance_WindowInfo(other) == other.class = "WindowInfo"

\* The __eq__ @dataclass generates: the tuples of all fields are compared.
WindowInfo_eq_dataclass(self, other) ==
    IF isinstance_WindowInfo(other) THEN self.value = other.value ELSE FALSE

\* WindowInfo.__eq__, lines 41-45.
WindowInfo_eq(self, other) ==
    IF isinstance_WindowInfo(other) THEN self.value.hwnd = other.value.hwnd
    ELSE FALSE

\* WindowInfo.__hash__, lines 37-39.
WindowInfo_hash(self) == int_hash(self.value.hwnd)

----------------------------------------------------------------------------
(* The window sources *)

\* s lists no handle twice.
DistinctHwnds(s) == \A j, k \in 1..Len(s) : j # k => s[j].hwnd # s[k].hwnd

\* What HouseSimulation.update() returns: one (hwnd, title, process_name) tuple
\* per person, and the hwnd of the person in focus.  remove_person() keeps at
\* least MIN_PEOPLE people.  Each person's hwnd is random.randint(10000, 99999):
\* two people have the same hwnd only in an environment with collide = TRUE.
SimEntries == [hwnd : env.hwnds, title : env.titles, process_name : env.procs]
SimSnapshots ==
    {s \in UNION {[1..n -> SimEntries] : n \in env.people} :
        env.collide \/ DistinctHwnds(s)}

\* The platforms a run can be on: sys.platform, and whether the imports of
\* window_tracker_windows.py and window_tracker_macos.py succeeded.
Platforms ==
    [platform : {"win32", "darwin", "linux"},
     WINDOWS_AVAILABLE : BOOLEAN, MACOS_AVAILABLE : BOOLEAN]

\* WindowsWindowTracker.is_supported and MacOSWindowTracker.is_supported.
WindowsWindowTracker_is_supported(p) == p.platform = "win32" /\ p.WINDOWS_AVAILABLE
MacOSWindowTracker_is_supported(p) == p.platform = "darwin" /\ p.MACOS_AVAILABLE

\* tracker.is_supported() on the platform p.
is_supported(tracker, p) ==
    CASE tracker = "WindowsWindowTracker" -> WindowsWindowTracker_is_supported(p)
      [] tracker = "MacOSWindowTracker" -> MacOSWindowTracker_is_supported(p)
      [] OTHER -> FALSE

\* An error message without the advice on what to install.
error_msg_plain(p) == [platform |-> p.platform, install |-> None]

\* The message of the RuntimeError create_window_tracker() raises, lines 34-40:
\* the platform it names, and the package it tells the operator to install
\* (None when it gives no such advice).
error_msg(p) ==
    [platform |-> p.platform,
     install |-> IF p.platform = "win32" THEN "pywin32"
                 ELSE IF p.platform = "darwin" THEN "pyobjc"
                 ELSE None]

\* A factory that picks the tracker by the name of the platform alone.
create_window_tracker_by_name(p) ==
    IF p.platform = "win32" THEN "WindowsWindowTracker"
    ELSE IF p.platform = "darwin" THEN "MacOSWindowTracker"
    ELSE "RuntimeError"

\* create_window_tracker(): the tracker it returns, or the RuntimeError it
\* raises.
create_window_tracker(p) ==
    IF is_supported("WindowsWindowTracker", p) THEN "WindowsWindowTracker"
    ELSE IF is_supported("MacOSWindowTracker", p) THEN "MacOSWindowTracker"
    ELSE "RuntimeError"

\* TimeTracker._window_tracker, assigned once by __init__ (lines 32-43): None
\* in simulation mode, else what the factory returned; when the factory raised,
\* __init__ raised too and there is no engine.
window_tracker ==
    IF simulation_mode THEN None ELSE create_window_tracker(env.platform)

\* What a WindowTrackerBase.enumerate_windows() returns: WindowInfo objects
\* with distinct handles, each carrying its own is_active and is_visible.  The
\* Windows tracker sets is_active on the one foreground handle; the macOS
\* tracker sets it on every window of the frontmost application.
NativeEntries == [hwnd : env.hwnds, title : env.titles, process_name : env.procs,
                  is_active : BOOLEAN, is_visible : env.visible]
NativeSnapshots ==
    {s \in UNION {[1..n -> NativeEntries] : n \in 0..Cardinality(env.hwnds)} :
        /\ DistinctHwnds(s)
        /\ window_tracker = "WindowsWindowTracker" =>
                Cardinality({k \in 1..Len(s) : s[k].is_active}) <= 1}

\* What get_active_window_handle() returns.
NativeHandles == env.handles

\* current_hwnds, lines 148-151.
current_hwnds(list) == {list[k].hwnd : k \in 1..Len(list)}

----------------------------------------------------------------------------
(* Initial state: TimeTracker.__init__, no loop thread, an idle consumer *)

(* core/simulation.py: SimulatedPerson and HouseSimulation *)

\* The names of PEOPLE, lines 7-17.
PEOPLE ==
    <<"Mom", "Dad", "Sarah", "Tommy", "Grandma", "Uncle Joe", "Aunt Linda",
      "Best Friend Alex", "Neighbor Bob">>

\* SimulatedPerson.__init__, lines 117-129: hwnd is the random handle drawn.
SimulatedPerson(name, hwnd) == [name |-> name, hwnd |-> hwnd]

\* SimulatedPerson.get_window_info, lines 149-156 (the title begins with the
\* name; the activity is left out).
get_window_info(person) == [hwnd |-> person.hwnd, title |-> person.name]

\* The names of the people of a list.
NamesOf(people) == {people[k].name : k \in 1..Len(people)}

\* list.remove of the element at position k (people are compared by identity).
RemoveAt(seq, k) == [j \in 1..(Len(seq) - 1) |-> IF j < k THEN seq[j] ELSE seq[j + 1]]

\* No call of update() is in progress, and none has returned.
IdleUpdate == [pc |-> "idle", windows |-> <<>>, active_hwnd |-> NoHandle]

\* No call of add_visitor() or remove_person() has returned.
NoCall == [op |-> None, value |-> None]

\* The engine's specifications see the simulation through what update()
\* returns (SimSnapshots) and keep no people in it.
NoHouse ==
    [people |-> <<>>, current_focus_index |-> 0, upd |-> IdleUpdate,
     consumer |-> "idle", ret |-> NoCall, calls |-> 0]

\* HouseSimulation.__init__, lines 162-178, when random.sample picks the first
\* n of PEOPLE in their order (the samples of one size differ by a renaming of
\* the people and by their order) and the people draw the handles hw.
HouseSimulation(n, hw) ==
    [NoHouse EXCEPT
        !.people = [k \in 1..(IF n < Len(PEOPLE) THEN n ELSE Len(PEOPLE)) |->
                        SimulatedPerson(PEOPLE[k], hw[k])]]

\* update(), lines 190-195: when the focus has lasted long enough (change), the
\* focus moves to the index r that random.randint(0, len(self.people) - 1)
\* returned.
update_focus(s, change, r) ==
    IF change THEN [s EXCEPT !.current_focus_index = r] ELSE s

\* update(), line 198: the list of the window tuples of the people.
update_list(s) ==
    [s EXCEPT !.upd.windows = [k \in 1..Len(s.people) |-> get_window_info(s.people[k])]]

\* update(), lines 201-203: self.people[self.current_focus_index].hwnd raises
\* IndexError when the index is not one of the list; else update() returns.
update_active(s) ==
    IF s.current_focus_index < Len(s.people)
    THEN [s EXCEPT !.upd.pc = "returned",
                   !.upd.active_hwnd = s.people[s.current_focus_index + 1].hwnd]
    ELSE [s EXCEPT !.upd.pc = "raised",
                   !.upd.active_hwnd = NoHandle]

\* remove_person(), lines 225-226, when random.choice picks the person at
\* position k.
remove_person_remove(s, k) ==
    [s EXCEPT !.people = RemoveAt(@, k),
              !.ret = [op |-> "remove_person", value |-> s.people[k].name]]

\* A remove_person() that leaves the focus index as it is.
remove_person_no_adjust(s) == s

\* remove_person(), lines 228-229.
remove_person_adjust(s) ==
    IF s.current_focus_index >= Len(s.people)
    THEN [s EXCEPT !.current_focus_index = Len(s.people) - 1]
    ELSE s

\* The variables of the engine, which the calls on the simulation leave alone.
trackerVars ==
    <<now, simulation_mode, windows, lock, running, thread, last_update_time,
      log, ctl, join_deadline, pc, interval, current_windows_list, active_hwnd,
      cycle, reader, env>>

\* One more call on the simulation is made.
Called(s) == [s EXCEPT !.calls = @ + 1]

\* HouseSimulation.update(), lines 180-203, as one call.
HouseSimulation_update ==
    /\ simulation.calls < MaxCalls
    /\ simulation.upd.pc \in {"idle", "returned", "raised"}
    /\ simulation.consumer = "idle"
    /\ \E change \in BOOLEAN : \E r \in 0..(Len(simulation.people) - 1) :
        simulation' = update_active(update_list(update_focus(Called(simulation), change, r)))
    /\ UNCHANGED trackerVars

\* An add_visitor() that picks among all of PEOPLE.
add_visitor_any ==
    /\ simulation.calls < MaxCalls
    /\ simulation.consumer = "idle"
    /\ \E k \in 1..Len(PEOPLE) : \E h \in env.hwnds :
            simulation' = [Called(simulation) EXCEPT
                !.people = Append(@, SimulatedPerson(PEOPLE[k], h)),
                !.ret = [op |-> "add_visitor", value |-> PEOPLE[k]]]
    /\ UNCHANGED trackerVars

\* HouseSimulation.add_visitor(), lines 209-220.
add_visitor ==
    /\ simulation.calls < MaxCalls
    /\ simulation.consumer = "idle"
    /\ LET current_names == NamesOf(simulation.people)
           available == {k \in 1..Len(PEOPLE) : PEOPLE[k] \notin current_names}
       IN  IF available # {}
           THEN \E k \in available : \E h \in env.hwnds :
                    simulation' = [Called(simulation) EXCEPT
                        !.people = Append(@, SimulatedPerson(PEOPLE[k], h)),
                        !.ret = [op |-> "add_visitor", value |-> PEOPLE[k]]]
           ELSE simulation' = [Called(simulation) EXCEPT
                        !.ret = [op |-> "add_visitor", value |-> None]]
    /\ UNCHANGED trackerVars

\* HouseSimulation.remove_person(), lines 222-231, as one call.
remove_person ==
    /\ simulation.calls < MaxCalls
    /\ simulation.consumer = "idle"
    /\ IF Len(simulation.people) > MIN_PEOPLE
       THEN \E k \in 1..Len(simulation.people) :
                simulation' = remove_person_adjust(remove_person_remove(Called(simulation), k))
       ELSE simulation' = [Called(simulation) EXCEPT
                    !.ret = [op |-> "remove_person", value |-> None]]
    /\ UNCHANGED trackerVars

\* The tracking thread calls update() (time_tracker.py line 139) and runs its
\* for loop over the people, lines 187-188.
in_update_call ==
    /\ simulation.calls < MaxCalls
    /\ simulation.upd.pc \in {"idle", "returned", "raised"}
    /\ simulation' = [Called(simulation) EXCEPT !.upd = [IdleUpdate EXCEPT !.pc = "focus"]]
    /\ UNCHANGED trackerVars

\* It runs lines 190-195.
in_update_focus ==
    /\ simulation.upd.pc = "focus"
    /\ \E change \in BOOLEAN : \E r \in 0..(Len(simulation.people) - 1) :
        simulation' = [update_focus(simulation, change, r) EXCEPT !.upd.pc = "list"]
    /\ UNCHANGED trackerVars

\* It runs line 198.
in_update_list ==
    /\ simulation.upd.pc = "list"
    /\ simulation' = [update_list(simulation) EXCEPT !.upd.pc = "active"]
    /\ UNCHANGED trackerVars

\* It runs lines 201-203.
in_update_active ==
    /\ simulation.upd.pc = "active"
    /\ simulation' = update_active(simulation)
    /\ UNCHANGED trackerVars

\* The consumer thread calls remove_simulation_person() (time_tracker.py lines
\* 235-243) and runs remove_person() up to line 226.
in_remove_person_remove ==
    /\ simulation.calls < MaxCalls
    /\ simulation.consumer = "idle"
    /\ IF Len(simulation.people) > MIN_PEOPLE
       THEN \E k \in 1..Len(simulation.people) :
                simulation' = [remove_person_remove(Called(simulation), k)
                                  EXCEPT !.consumer = "removing"]
       ELSE simulation' = [Called(simulation) EXCEPT
                    !.ret = [op |-> "remove_person", value |-> None]]
    /\ UNCHANGED trackerVars

\* It runs lines 228-230.
in_remove_person_adjust ==
    /\ simulation.consumer = "removing"
    /\ simulation' = [remove_person_adjust(simulation) EXCEPT !.consumer = "idle"]
    /\ UNCHANGED trackerVars

\* The consumer holds no record.
IdleReader ==
    [pc |-> "idle", refs |-> {}, live |-> FALSE, obj |-> <<>>, snap |-> <<>>,
     seen |-> <<>>, cands |-> {}]

\* The environments the specifications below run in.  hwnds, titles, procs:
\* the handles, titles and process names a source reports; people: how many
\* people the simulated house holds; collide: whether two of them can have
\* drawn the same random handle; visible: the is_visible values the
\* entries of a native source carry; handles: what
\* get_active_window_handle() returns; threads: the loop threads start() can
\* create; jitter: how far the clock can advance between two successive
\* datetime.now() calls; platform: the platform of the run.
\* A macOS machine with PyObjC installed.
MacOS == [platform |-> "darwin", WINDOWS_AVAILABLE |-> FALSE, MACOS_AVAILABLE |-> TRUE]
\* The simulated source.
SimEnv ==
    [hwnds |-> {1, 2, 3}, titles |-> {"a"}, procs |-> {"p"},
     people |-> {MIN_PEOPLE}, collide |-> FALSE, visible |-> {TRUE}, handles |-> {NoHandle}, threads |-> {"T1"},
     jitter |-> 0, platform |-> MacOS]
\* The native sources of src/: both set is_visible = True on every entry.
NativeEnv ==
    [hwnds |-> {1, 2}, titles |-> {"a"}, procs |-> {"p"},
     people |-> {}, collide |-> FALSE, visible |-> {TRUE}, handles |-> {NoHandle}, threads |-> {"T1"},
     jitter |-> 0, platform |-> MacOS]

\* TimeTracker.__init__, lines 24-32, in the environment e.
InitTracker(sim, e) ==
    /\ env = e
    /\ now = 0
    /\ simulation_mode = sim
    /\ windows = <<>>
    /\ lock = NoThread
    /\ running = FALSE
    /\ thread = NoThread
    /\ last_update_time = NoTime
    /\ log = ""
    /\ ctl = "idle"
    /\ join_deadline = 0
    /\ pc = [t \in Threads |-> "none"]
    /\ interval = [t \in Threads |-> 0]
    /\ current_windows_list = [t \in Threads |-> <<>>]
    /\ active_hwnd = [t \in Threads |-> NoHandle]
    /\ cycle = [t \in Threads |-> "none"]
    /\ reader = IdleReader

InitWith(sim, e) == InitTracker(sim, e) /\ simulation = NoHouse

\* The engine in simulation mode with the HouseSimulation of lines 34-36.
InitHouse(e) ==
    /\ InitTracker(TRUE, e)
    /\ \E n \in e.people : \E hw \in [1..n -> e.hwnds] :
            simulation = HouseSimulation(n, hw)

Init == InitWith(TRUE, SimEnv) \/ InitWith(FALSE, NativeEnv)

----------------------------------------------------------------------------
(* TimeTracker.start, stop, clear *)

\* The Thread object start() creates: a thread that does not exist or has ended.
FreeThread ==
    IF pc["T1"] \in {"none", "done"} \/ "T2" \notin env.threads THEN "T1" ELSE "T2"

\* A start() that leaves the previous-cycle timestamp as the last cycle set it.
start_keeps_timestamp ==
    /\ ctl = "idle"
    /\ IF running
       THEN /\ log' = "TimeTracker already running"
            /\ UNCHANGED <<running, last_update_time, thread, pc>>
       ELSE /\ pc[FreeThread] \in {"none", "done"}
            /\ running' = TRUE
            /\ last_update_time' = IF thread = NoThread THEN now ELSE last_update_time
            /\ thread' = FreeThread
            /\ pc' = [pc EXCEPT ![FreeThread] = "top"]
            /\ log' = "TimeTracker started"
    /\ UNCHANGED <<env, now, simulation_mode, simulation, windows, lock, ctl, join_deadline,
                   localVars, cycle, reader>>

\* A start() that does not test the running flag.
StartGuardMissing == FALSE

\* `if self._running:`, line 47.
StartGuard == running

start ==
    /\ ctl = "idle"
    /\ IF StartGuard
       THEN /\ log' = "TimeTracker already running"
            /\ UNCHANGED <<running, last_update_time, thread, pc>>
       ELSE /\ pc[FreeThread] \in {"none", "done"}
            /\ running' = TRUE
            /\ last_update_time' = now
            /\ thread' = FreeThread
            /\ pc' = [pc EXCEPT ![FreeThread] = "top"]
            /\ log' = "TimeTracker started"
    /\ UNCHANGED <<env, now, simulation_mode, simulation, windows, lock, ctl, join_deadline,
                   localVars, cycle, reader>>

\* A stop() that does not test the running flag.
StopGuardMissing == FALSE

\* `if not self._running:`, line 63.
StopGuard == ~running

\* stop() up to the join: lines 63-69.  `if self._thread:` skips the join when
\* no thread was ever created.
stop ==
    /\ ctl = "idle"
    /\ IF StopGuard
       THEN /\ log' = "TimeTracker not running"
            /\ UNCHANGED <<running, ctl, join_deadline>>
       ELSE /\ running' = FALSE
            /\ IF thread # NoThread
               THEN /\ ctl' = "joining"
                    /\ join_deadline' = now + JOIN_TIMEOUT
                    /\ UNCHANGED log
               ELSE /\ log' = "TimeTracker stopped"
                    /\ UNCHANGED <<ctl, join_deadline>>
    /\ UNCHANGED <<env, now, simulation_mode, simulation, windows, lock, thread,
                   last_update_time, pc, localVars, cycle, reader>>

\* The join returns because the loop thread has ended: lines 69-70.
stop_joined ==
    /\ ctl = "joining"
    /\ pc[thread] = "done"
    /\ ctl' = "idle"
    /\ join_deadline' = 0
    /\ log' = "TimeTracker stopped"
    /\ UNCHANGED <<env, now, simulation_mode, simulation, windows, lock, running, thread,
                   last_update_time, pc, localVars, cycle, reader>>

\* A stop() that kills the loop thread when the join times out.
stop_timeout_kills ==
    /\ ctl = "joining"
    /\ pc[thread] # "done"
    /\ Max(now, join_deadline) <= MaxTime
    /\ now' = Max(now, join_deadline)
    /\ ctl' = "idle"
    /\ join_deadline' = 0
    /\ log' = "TimeTracker stopped"
    /\ pc' = [pc EXCEPT ![thread] = "done"]
    /\ lock' = IF lock = thread THEN NoThread ELSE lock
    /\ UNCHANGED <<env, simulation_mode, simulation, windows, running, thread,
                   last_update_time, localVars, cycle, reader>>

\* The join returns after its timeout with the loop thread still alive.
stop_timeout ==
    /\ ctl = "joining"
    /\ pc[thread] # "done"
    /\ Max(now, join_deadline) <= MaxTime
    /\ now' = Max(now, join_deadline)
    /\ ctl' = "idle"
    /\ join_deadline' = 0
    /\ log' = "TimeTracker stopped"
    /\ UNCHANGED <<env, simulation_mode, simulation, windows, lock, running, thread,
                   last_update_time, pc, localVars, cycle, reader>>

\* clear(): under the lock, empties the map.  Records a consumer still holds
\* are no longer the map's records.
Detached(r) ==
    IF r.pc = "idle" \/ ~r.live THEN r
    ELSE [r EXCEPT !.live = FALSE, !.obj = [h \in r.refs |-> windows[h]]]

\* A clear() that removes only the records of the windows that are gone.
clear_ghosts_only ==
    /\ lock = NoThread
    /\ windows' = [h \in {g \in DOMAIN windows : windows[g].is_visible} |-> windows[h]]
    /\ reader' = Detached(reader)
    /\ UNCHANGED <<env, now, simulation_mode, simulation, lock, running, thread,
                   last_update_time, log, ctl, join_deadline, pc, localVars, cycle>>

clear ==
    /\ lock = NoThread
    /\ windows' = <<>>
    /\ reader' = Detached(reader)
    /\ UNCHANGED <<env, now, simulation_mode, simulation, lock, running, thread,
                   last_update_time, log, ctl, join_deadline, pc, localVars, cycle>>

----------------------------------------------------------------------------
(* TimeTracker._tracking_loop and _update_windows, one loop thread t *)

\* The locals of _tracking_loop and _update_windows go out of scope.
ReturnLocals(t) ==
    /\ interval' = [interval EXCEPT ![t] = 0]
    /\ current_windows_list' = [current_windows_list EXCEPT ![t] = <<>>]
    /\ active_hwnd' = [active_hwnd EXCEPT ![t] = NoHandle]

\* A loop that does not test the running flag (`while True:`).
loop_top_no_test(t) ==
    /\ pc[t] = "top"
    /\ interval' = [interval EXCEPT ![t] = now - last_update_time]
    /\ last_update_time' = now
    /\ pc' = [pc EXCEPT ![t] = "poll"]
    /\ cycle' = [cycle EXCEPT ![t] = "none"]
    /\ UNCHANGED <<env, now, simulation_mode, simulation, windows, lock, running, thread,
                   log, ctl, join_deadline, current_windows_list, active_hwnd,
                   reader>>

\* A loop that takes the lock before it calls the source.
loop_top_locks(t) ==
    /\ pc[t] = "top"
    /\ IF running
       THEN /\ lock = NoThread
            /\ lock' = t
            /\ interval' = [interval EXCEPT ![t] = now - last_update_time]
            /\ last_update_time' = now
            /\ pc' = [pc EXCEPT ![t] = "poll"]
       ELSE /\ pc' = [pc EXCEPT ![t] = "done"]
            /\ UNCHANGED <<interval, last_update_time, lock>>
    /\ cycle' = [cycle EXCEPT ![t] = "none"]
    /\ UNCHANGED <<env, now, simulation_mode, simulation, windows, running, thread,
                   log, ctl, join_deadline, current_windows_list, active_hwnd,
                   reader>>

\* `while self._running:` and lines 114-116.
loop_top(t) ==
    /\ pc[t] = "top"
    /\ IF running
       THEN /\ interval' = [interval EXCEPT ![t] = now - last_update_time]
            /\ last_update_time' = now
            /\ pc' = [pc EXCEPT ![t] = "poll"]
       ELSE /\ pc' = [pc EXCEPT ![t] = "done"]
            /\ UNCHANGED <<interval, last_update_time>>
    /\ cycle' = [cycle EXCEPT ![t] = "none"]
    /\ UNCHANGED <<env, now, simulation_mode, simulation, windows, lock, running, thread,
                   log, ctl, join_deadline, current_windows_list, active_hwnd,
                   reader>>

\* The source call returns, lines 137-151, having taken d units of time.
poll(t) ==
    /\ pc[t] = "poll"
    /\ \E d \in 0..(MaxTime - now) : now' = now + d
    /\ IF simulation_mode
       THEN \E s \in SimSnapshots : \E k \in 1..Len(s) :
                /\ current_windows_list' = [current_windows_list EXCEPT ![t] = s]
                /\ active_hwnd' = [active_hwnd EXCEPT ![t] = s[k].hwnd]
       ELSE \E s \in NativeSnapshots : \E a \in NativeHandles :
                /\ current_windows_list' = [current_windows_list EXCEPT ![t] = s]
                /\ active_hwnd' = [active_hwnd EXCEPT ![t] = a]
    /\ pc' = [pc EXCEPT ![t] = "locking"]
    /\ UNCHANGED <<engineVars, interval, cycle, reader>>

\* A loop whose try block encloses the while loop: the exception ends it.
poll_raise_ends_loop(t) ==
    /\ pc[t] = "poll"
    /\ \E d \in 0..(MaxTime - now) : now' = now + d
    /\ pc' = [pc EXCEPT ![t] = "done"]
    /\ cycle' = [cycle EXCEPT ![t] = "raised"]
    /\ ReturnLocals(t)
    /\ UNCHANGED <<engineVars, reader>>

\* The source call raises: the handler of lines 124-126 logs and sleeps.
poll_raise(t) ==
    /\ pc[t] = "poll"
    /\ \E d \in 0..(MaxTime - now) : now' = now + d
    /\ pc' = [pc EXCEPT ![t] = "sleep"]
    /\ cycle' = [cycle EXCEPT ![t] = "raised"]
    /\ ReturnLocals(t)
    /\ UNCHANGED <<engineVars, reader>>

\* `with self._lock:`, line 153.
acquire(t) ==
    /\ pc[t] = "locking"
    /\ lock = NoThread
    /\ lock' = t
    /\ pc' = [pc EXCEPT ![t] = "locked"]
    /\ UNCHANGED <<env, now, simulation_mode, simulation, windows, running, thread,
                   last_update_time, log, ctl, join_deadline, localVars,
                   cycle, reader>>

\* One iteration of the simulation branch's for loop, lines 157-178.
SimEntry(w, e, ival, active, t1, t2) ==
    LET is_currently_active == (e.hwnd = active) IN
    IF e.hwnd \in DOMAIN w
    THEN [w EXCEPT ![e.hwnd] =
            [update_times(@, ival, is_currently_active, t1, t2)
                EXCEPT !.title = e.title, !.is_visible = TRUE]]
    ELSE [h \in DOMAIN w \cup {e.hwnd} |->
            IF h = e.hwnd THEN NewSimWindow(e, is_currently_active, t1, t2)
            ELSE w[h]]

\* A native branch that creates a new record when a window that had gone
\* comes back.
NativeEntry_recreates(w, e, ival, t1, t2) ==
    IF e.hwnd \in DOMAIN w /\ w[e.hwnd].is_visible
    THEN [w EXCEPT ![e.hwnd] =
            [update_times(@, ival, e.is_active, t1, t2)
                EXCEPT !.title = e.title, !.is_visible = e.is_visible,
                       !.is_active = e.is_active]]
    ELSE [h \in DOMAIN w \cup {e.hwnd} |->
            IF h = e.hwnd THEN NewNativeWindow(e, t1, t2) ELSE w[h]]

\* One iteration of the native branch's for loop, lines 181-197.
NativeEntry(w, e, ival, t1, t2) ==
    LET is_currently_active == e.is_active IN
    IF e.hwnd \in DOMAIN w
    THEN [w EXCEPT ![e.hwnd] =
            [update_times(@, ival, is_currently_active, t1, t2)
                EXCEPT !.title = e.title, !.is_visible = e.is_visible,
                       !.is_active = is_currently_active]]
    ELSE [h \in DOMAIN w \cup {e.hwnd} |->
            IF h = e.hwnd THEN NewNativeWindow(e, t1, t2) ELSE w[h]]

\* The (total_open_time, active_time) pair a consumer reads off a record.
TimesOf(w) == <<w.total_open_time, w.active_time>>

\* While a consumer is between its two reads of a record of the map, every
\* state the locked section leaves that record in is one it may see whole.
Observed(r, w) ==
    IF r.pc = "half" /\ r.live
    THEN [r EXCEPT !.cands = @ \cup {TimesOf(w[r.seen.hwnd])}]
    ELSE r

\* The clock after the first k of the increments ds.
RECURSIVE ClockAfter(_, _, _)
ClockAfter(t0, ds, k) == IF k = 0 THEN t0 ELSE ClockAfter(t0, ds, k - 1) + ds[k]

\* The for loop of lines 155-197 over the first k entries of the list; the
\* clock stands at t0 when the loop starts and advances by ds[j] between the
\* two datetime.now() calls of iteration j.
RECURSIVE ForLoop(_, _, _, _, _, _, _, _)
ForLoop(sim, w, list, k, ival, active, t0, ds) ==
    IF k = 0 THEN w
    ELSE LET w1 == ForLoop(sim, w, list, k - 1, ival, active, t0, ds)
             t1 == ClockAfter(t0, ds, k - 1)
             t2 == ClockAfter(t0, ds, k)
         IN  IF sim THEN SimEntry(w1, list[k], ival, active, t1, t2)
             ELSE NativeEntry(w1, list[k], ival, t1, t2)

\* A marking loop that deletes the records of the windows that are gone.
MarkInvisibleDeletes(w, hs) == [h \in DOMAIN w \cap hs |-> w[h]]

\* A marking loop that also clears is_active on the records it marks.
MarkInvisibleDeactivates(w, hs) ==
    [h \in DOMAIN w |->
        IF h \in hs THEN w[h]
        ELSE [w[h] EXCEPT !.is_visible = FALSE, !.is_active = FALSE]]

\* Lines 199-204: every tracked handle not in current_hwnds is marked.
MarkInvisible(w, hs) ==
    [h \in DOMAIN w |-> IF h \in hs THEN w[h] ELSE [w[h] EXCEPT !.is_visible = FALSE]]

\* The clock increments the for loop can see.
Jitters(n) == {ds \in [1..n -> 0..env.jitter] : ClockAfter(now, ds, n) <= MaxTime}

\* The with block of lines 153-204 runs to its end and releases the lock; the
\* loop goes on to sleep (line 122).
update_windows(t) ==
    /\ pc[t] = "locked"
    /\ lock = t
    /\ LET list == current_windows_list[t] IN
       \E ds \in Jitters(Len(list)) :
        /\ now' = ClockAfter(now, ds, Len(list))
        /\ windows' = MarkInvisible(
                ForLoop(simulation_mode, windows, list, Len(list),
                        interval[t], active_hwnd[t], now, ds),
                current_hwnds(list))
    /\ lock' = NoThread
    /\ pc' = [pc EXCEPT ![t] = "sleep"]
    /\ cycle' = [cycle EXCEPT ![t] = "ok"]
    /\ ReturnLocals(t)
    /\ reader' = Observed(reader, windows')
    /\ UNCHANGED <<env, simulation_mode, simulation, running, thread, last_update_time,
                   log, ctl, join_deadline>>

\* A locked section that keeps the lock when a statement in it raises
\* (acquire() and release() calls in place of the with block).
update_raise_keeps_lock(t) ==
    /\ pc[t] = "locked"
    /\ lock = t
    /\ LET list == current_windows_list[t] IN
       \E k \in 0..(Len(list) - 1) : \E ds \in Jitters(k) :
        /\ now' = ClockAfter(now, ds, k)
        /\ windows' = ForLoop(simulation_mode, windows, list, k,
                              interval[t], active_hwnd[t], now, ds)
    /\ lock' = lock
    /\ pc' = [pc EXCEPT ![t] = "sleep"]
    /\ cycle' = [cycle EXCEPT ![t] = "raised"]
    /\ ReturnLocals(t)
    /\ reader' = Observed(reader, windows')
    /\ UNCHANGED <<env, simulation_mode, simulation, running, thread, last_update_time,
                   log, ctl, join_deadline>>

\* A statement of iteration k+1 of the for loop raises after k iterations: the
\* with block releases the lock and the handler of lines 124-126 logs and
\* sleeps.
update_raise(t) ==
    /\ pc[t] = "locked"
    /\ lock = t
    /\ LET list == current_windows_list[t] IN
       \E k \in 0..(Len(list) - 1) : \E ds \in Jitters(k) :
        /\ now' = ClockAfter(now, ds, k)
        /\ windows' = ForLoop(simulation_mode, windows, list, k,
                              interval[t], active_hwnd[t], now, ds)
    /\ lock' = NoThread
    /\ pc' = [pc EXCEPT ![t] = "sleep"]
    /\ cycle' = [cycle EXCEPT ![t] = "raised"]
    /\ ReturnLocals(t)
    /\ reader' = Observed(reader, windows')
    /\ UNCHANGED <<env, simulation_mode, simulation, running, thread, last_update_time,
                   log, ctl, join_deadline>>

\* time.sleep(WINDOW_ENUMERATION_INTERVAL), lines 122 and 126.
sleep(t) ==
    /\ pc[t] = "sleep"
    /\ \E d \in WINDOW_ENUMERATION_INTERVAL..(MaxTime - now) : now' = now + d
    /\ pc' = [pc EXCEPT ![t] = "top"]
    /\ UNCHANGED <<engineVars, localVars, cycle, reader>>

----------------------------------------------------------------------------
(* The consumer: get_all_windows, get_window, and the reads of the fields of a
   returned record, as PygameHouseView._draw_stats_overlay makes them *)

\* The record behind a reference the consumer holds.
Referent(r, h) == IF r.live THEN windows[h] ELSE r.obj[h]

\* What the accessors hand out for the handles hs: the map's own WindowInfo
\* objects (the list is new, its elements are not copies).
Handed(hs) ==
    [pc |-> "got", refs |-> hs, live |-> TRUE, obj |-> <<>>,
     snap |-> [h \in hs |-> windows[h]], seen |-> <<>>, cands |-> {}]

\* get_all_windows(), lines 84-85.
get_all_windows ==
    /\ reader.pc = "idle"
    /\ lock = NoThread
    /\ DOMAIN windows # {}
    /\ reader' = Handed(DOMAIN windows)
    /\ UNCHANGED <<engineVars, now, pc, localVars, cycle>>

\* get_window(hwnd), lines 96-97, for a tracked hwnd.
get_window(h) ==
    /\ reader.pc = "idle"
    /\ lock = NoThread
    /\ h \in DOMAIN windows
    /\ reader' = Handed({h})
    /\ UNCHANGED <<engineVars, now, pc, localVars, cycle>>

\* The consumer reads window.total_open_time of a record it holds
\* (pygame_house_view.py line 1164), without the lock.
read_total_open_time(h) ==
    /\ reader.pc = "got"
    /\ h \in reader.refs
    /\ reader' = [reader EXCEPT
            !.pc = "half",
            !.seen = [hwnd |-> h,
                      total_open_time |-> Referent(reader, h).total_open_time],
            !.cands = {TimesOf(Referent(reader, h))}]
    /\ UNCHANGED <<engineVars, now, pc, localVars, cycle>>

\* Then it reads window.active_time of the same record (line 1165).
read_active_time ==
    /\ reader.pc = "half"
    /\ reader' = [reader EXCEPT
            !.pc = "done",
            !.seen = [hwnd |-> @.hwnd, total_open_time |-> @.total_open_time,
                      active_time |-> Referent(reader, @.hwnd).active_time]]
    /\ UNCHANGED <<engineVars, now, pc, localVars, cycle>>

\* The consumer drops the records (the end of the frame).
release ==
    /\ reader.pc \in {"got", "done", "compared", "enumerated"}
    /\ reader' = IdleReader
    /\ UNCHANGED <<engineVars, now, pc, localVars, cycle>>

\* The consumer threads as holders of the lock.
Consumers == {"consumer"}

\* The public operations that take the lock: lines 74, 84, 96 and 212.
LockedOps == {"clear", "get_all_windows", "get_window", "get_stats"}

\* The consumer calls one of them and reaches its `with self._lock:`.
call(c, op) ==
    /\ reader.pc = "idle"
    /\ reader' = [IdleReader EXCEPT !.pc = "waiting", !.seen = [op |-> op, by |-> c]]
    /\ UNCHANGED <<engineVars, now, pc, localVars, cycle>>

\* The consumer acquires the lock.
enter(c) ==
    /\ reader.pc = "waiting"
    /\ reader.seen.by = c
    /\ lock = NoThread
    /\ lock' = c
    /\ reader' = [reader EXCEPT !.pc = "inside"]
    /\ UNCHANGED <<env, now, simulation_mode, simulation, windows, running, thread,
                   last_update_time, log, ctl, join_deadline, pc, localVars, cycle>>

\* The body of the with block runs (clear() empties the map, the others
\* read it), the block releases the lock and the call returns.
leave(c) ==
    /\ reader.pc = "inside"
    /\ lock = c
    /\ lock' = NoThread
    /\ windows' = IF reader.seen.op = "clear" THEN <<>> ELSE windows
    /\ reader' = IdleReader
    /\ UNCHANGED <<env, now, simulation_mode, simulation, running, thread,
                   last_update_time, log, ctl, join_deadline, pc, localVars, cycle>>

\* What get_all_windows() returns: the records of the map (line 85).
windows_values == {windows[h] : h \in DOMAIN windows}

\* What get_window(hwnd) returns: self._windows.get(hwnd), line 97.
windows_get(hwnd) == IF hwnd \in DOMAIN windows THEN windows[hwnd] ELSE None

\* get_stats(), lines 213-214.
total_windows == Cardinality(DOMAIN windows)
visible_windows == Cardinality({h \in DOMAIN windows : windows[h].is_visible})

\* get_stats()['active_window'], lines 215 and 220, on the map w: the title of
\* the first record with is_active in the iteration order of the dict, None
\* when there is none.  The map of the model keeps no insertion order: with
\* several active records the value is one of their titles.
active_window(w) ==
    LET active == {h \in DOMAIN w : w[h].is_active}
    IN  IF active = {} THEN {None} ELSE {w[h].title : h \in active}

\* The WindowInfo objects a consumer can hold, and other values it can compare
\* them with: a handle, a (hwnd, title, process_name) tuple of the simulation,
\* None.
WindowInfoValues ==
    {PyValue("WindowInfo", w) :
        w \in [hwnd : {-2, -1, 1, 2}, title : {"a", "b"}, process_name : {"p"},
               first_seen : {0, 1}, last_seen : {1},
               total_open_time : {0, 1}, active_time : {0},
               is_active : BOOLEAN, is_visible : BOOLEAN]}
OtherValues ==
    {PyValue("int", h) : h \in {-2, -1, 1, 2}}
        \cup {PyValue("tuple", <<h, "a", "p">>) : h \in {1, 2}}
        \cup {PyValue("NoneType", None)}

\* The consumer evaluates a == b, hash(a) and, for a WindowInfo b, hash(b).
compare(a, b) ==
    /\ reader.pc = "idle"
    /\ reader' = [IdleReader EXCEPT
            !.pc = "compared",
            !.seen = [a |-> a, b |-> b,
                      eq |-> WindowInfo_eq(a, b),
                      hash_a |-> WindowInfo_hash(a),
                      hash_b |-> IF isinstance_WindowInfo(b)
                                 THEN WindowInfo_hash(b) ELSE None]]
    /\ UNCHANGED <<engineVars, now, pc, localVars, cycle>>

\* enumerate_windows() of the selected native tracker when the platform has
\* the windows raw (those that pass its filters, in enumeration order):
\* window_tracker_windows.py lines 30-65, window_tracker_macos.py lines 39-93.
\* Without the platform modules it returns [] at once.  Otherwise the windows
\* are appended one by one inside a try block whose except clause only logs;
\* `return windows` follows the try statement, so when the platform call fails
\* after k windows were appended the list returned holds those k windows.
enumerate_windows(raw, failed, k) ==
    IF window_tracker = "WindowsWindowTracker" /\ ~env.platform.WINDOWS_AVAILABLE
        THEN [raised |-> FALSE, windows |-> <<>>]
    ELSE IF window_tracker = "MacOSWindowTracker" /\ ~env.platform.MACOS_AVAILABLE
        THEN [raised |-> FALSE, windows |-> <<>>]
    ELSE IF failed
        THEN [raised |-> FALSE, windows |-> SubSeq(raw, 1, k)]
    ELSE [raised |-> FALSE, windows |-> raw]

\* One call of enumerate_windows(): the platform has the windows raw, and the
\* enumeration fails (or not) after k of them were collected.
enumerate(raw, failed, k) ==
    /\ reader.pc = "idle"
    /\ reader' = [IdleReader EXCEPT
            !.pc = "enumerated",
            !.seen = [raw |-> raw, failed |-> failed, collected |-> k,
                      result |-> enumerate_windows(raw, failed, k)]]
    /\ UNCHANGED <<engineVars, now, pc, localVars, cycle>>

----------------------------------------------------------------------------
(* The engine: a controller and the loop threads *)

Next ==
    \/ start
    \/ stop
    \/ stop_joined
    \/ stop_timeout
    \/ clear
    \/ \E t \in Threads : loop_top(t)
    \/ \E t \in Threads : poll(t)
    \/ \E t \in Threads : poll_raise(t)
    \/ \E t \in Threads : acquire(t)
    \/ \E t \in Threads : update_windows(t)
    \/ \E t \in Threads : update_raise(t)
    \/ \E t \in Threads : sleep(t)

Spec == Init /\ [][Next]_vars

\* The engine under the scheduling the code relies on: a sleeping loop thread
\* wakes up, and a thread at the top of the loop runs.
FairSpec ==
    /\ Init
    /\ [][Next]_vars
    /\ \A t \in Threads : WF_vars(sleep(t)) /\ WF_vars(loop_top(t))

\* A native source whose entries carry either is_visible value.
FlagsEnv == [NativeEnv EXCEPT !.visible = BOOLEAN]
SpecFlags == InitWith(FALSE, FlagsEnv) /\ [][Next]_vars

\* A native source whose get_active_window_handle() can return no handle, the
\* handle of the window, or a value that is no window's handle (the macOS
\* source returns hash(app_name), window_tracker_macos.py line 111).
HandlesEnv == [NativeEnv EXCEPT !.hwnds = {1}, !.handles = {NoHandle, 1, 9}]
SpecHandles == InitWith(FALSE, HandlesEnv) /\ [][Next]_vars

\* The caller lets time pass between a stop() whose loop has exited and the
\* next start().
wait_stopped ==
    /\ ~running
    /\ ctl = "idle"
    /\ \A t \in Threads : pc[t] \in {"none", "done"}
    /\ \E d \in 1..(MaxTime - now) : now' = now + d
    /\ UNCHANGED <<env, simulation_mode, simulation, windows, lock, running, thread,
                   last_update_time, log, ctl, join_deadline, pc, localVars,
                   cycle, reader>>

\* The engine with one window when the caller can wait while it is stopped.
NextRestart == Next \/ wait_stopped
SpecRestart == InitWith(FALSE, [NativeEnv EXCEPT !.hwnds = {1}]) /\ [][NextRestart]_vars

\* A Windows machine with pywin32 and psutil installed.
WindowsPC == [platform |-> "win32", WINDOWS_AVAILABLE |-> TRUE, MACOS_AVAILABLE |-> FALSE]

\* Calls of enumerate_windows() on either native tracker, with up to three
\* windows on the platform and a failure at any point of the enumeration.
EnumerateEnv(p) == [NativeEnv EXCEPT !.hwnds = {1, 2, 3}, !.platform = p]
InitEnumerate == \E p \in {WindowsPC, MacOS} : InitWith(FALSE, EnumerateEnv(p))
NextEnumerate ==
    \/ \E raw \in NativeSnapshots : \E failed \in BOOLEAN : \E k \in 0..Len(raw) :
            enumerate(raw, failed, IF failed THEN k ELSE Len(raw))
    \/ release
SpecEnumerate == InitEnumerate /\ [][NextEnumerate]_vars

\* The engine with one window and a consumer that calls the locked
\* operations, under fair scheduling: a thread inside a with block runs to its
\* end, and a thread that waits for a lock that is free again and again gets it.
NextLock ==
    \/ Next
    \/ \E c \in Consumers : \E op \in LockedOps : call(c, op)
    \/ \E c \in Consumers : enter(c)
    \/ \E c \in Consumers : leave(c)
FairLockSpec ==
    /\ InitWith(FALSE, [NativeEnv EXCEPT !.hwnds = {1}])
    /\ [][NextLock]_vars
    /\ \A t \in Threads : WF_vars(update_windows(t) \/ update_raise(t))
    /\ \A c \in Consumers : WF_vars(leave(c)) /\ SF_vars(enter(c))

\* A default-constructed HouseSimulation (random.randint(4, 9) people) under
\* add_visitor() and remove_person() calls.
PopulationEnv == [SimEnv EXCEPT !.hwnds = {1}, !.people = 4..9]
NextPopulation == add_visitor \/ remove_person
SpecPopulation == InitHouse(PopulationEnv) /\ [][NextPopulation]_vars

\* A HouseSimulation of four people whose handles can coincide, under
\* sequential update(), add_visitor() and remove_person() calls.
HouseEnv == [SimEnv EXCEPT !.hwnds = {1, 2}, !.people = {4}]
NextHouse == HouseSimulation_update \/ add_visitor \/ remove_person
SpecHouse == InitHouse(HouseEnv) /\ [][NextHouse]_vars

\* The simulated source when two people can have drawn the same handle.
CollideEnv == [SimEnv EXCEPT !.hwnds = {1, 2}, !.collide = TRUE]
SpecCollide == InitWith(TRUE, CollideEnv) /\ [][Next]_vars

\* The tracking thread inside update() while the consumer thread calls
\* add_simulation_visitor() and remove_simulation_person(): the statements of
\* the two threads interleave, no lock being taken.
NextRace ==
    \/ in_update_call
    \/ in_update_focus
    \/ in_update_list
    \/ in_update_active
    \/ add_visitor
    \/ in_remove_person_remove
    \/ in_remove_person_adjust
SpecRace == InitHouse(HouseEnv) /\ [][NextRace]_vars

\* One window, and a second loop thread for start() to create.
ThreadsEnv == [NativeEnv EXCEPT !.hwnds = {1}, !.threads = {"T1", "T2"}]
SpecThreads == InitWith(FALSE, ThreadsEnv) /\ [][Next]_vars

\* The engine with two loop threads to create when, in addition, every source
\* call returns or raises and a loop thread is scheduled through the rest of
\* its cycle.
FairReturnSpec ==
    /\ InitWith(FALSE, ThreadsEnv)
    /\ [][Next]_vars
    /\ \A t \in Threads :
        /\ WF_vars(sleep(t))
        /\ WF_vars(loop_top(t))
        /\ WF_vars(poll(t) \/ poll_raise(t))
        /\ WF_vars(acquire(t))
        /\ WF_vars(update_windows(t) \/ update_raise(t))

\* The engine with two loop threads to create when the join of stop() returns:
\* Thread.join(timeout=2.0) ends when the thread has ended or the timeout has
\* passed.  Nothing is assumed about the source call.
FairStopSpec ==
    /\ InitWith(FALSE, ThreadsEnv)
    /\ [][Next]_vars
    /\ WF_vars(stop_joined \/ stop_timeout)

\* The engine constructed in native mode on any platform, with one window.
\* Where the factory raises, TimeTracker.__init__ raises and nothing runs.
FactoryEnv(p) == [NativeEnv EXCEPT !.hwnds = {1}, !.platform = p]
InitFactory == \E p \in Platforms : InitWith(FALSE, FactoryEnv(p))
NextFactory == window_tracker # "RuntimeError" /\ Next
SpecFactory == InitFactory /\ [][NextFactory]_vars

\* A native source that reports one handle under either of two titles and
\* either of two process names.
NamesEnv == [NativeEnv EXCEPT !.hwnds = {1}, !.titles = {"a", "b"}, !.procs = {"p", "q"}]
SpecNames == InitWith(FALSE, NamesEnv) /\ [][Next]_vars

\* The engine, in either mode, when the clock can advance by one unit between
\* two successive datetime.now() calls.
SpecJitter ==
    /\ \/ InitWith(TRUE, [SimEnv EXCEPT !.jitter = 1])
       \/ InitWith(FALSE, [NativeEnv EXCEPT !.jitter = 1])
    /\ [][Next]_vars

\* A consumer that compares and hashes values.
NextEquality ==
    \/ \E a \in WindowInfoValues : \E b \in WindowInfoValues \cup OtherValues :
            compare(a, b)
    \/ release
SpecEquality == InitWith(FALSE, NativeEnv) /\ [][NextEquality]_vars

\* The engine with a consumer.
NextReader ==
    \/ Next
    \/ get_all_windows
    \/ \E h \in env.hwnds : get_window(h)
    \/ \E h \in env.hwnds : read_total_open_time(h)
    \/ read_active_time
    \/ release

SpecReader == InitWith(FALSE, NativeEnv) /\ [][NextReader]_vars

----------------------------------------------------------------------------
(* The claims *)

\* The loop threads that are running _tracking_loop.
LiveThreads == {t \in Threads : pc[t] \notin {"none", "done"}}

\* C1. Monotonic retention: a step that is not clear() removes no key from
\* the map, whatever the snapshot (empty included) and also when the cycle
\* raises.
C1_MonotonicRetention ==
    [][(~clear) => (DOMAIN windows \subseteq DOMAIN windows')]_vars

\* C1: a record retained after its window left the snapshot.
C1_Witness == \E h \in DOMAIN windows : ~windows[h].is_visible

\* C2. Time invariant: every tracked record has active_time <= total_open_time.
C2_TimeInvariant ==
    \A h \in DOMAIN windows : windows[h].active_time <= windows[h].total_open_time

\* C3. Atomic read: the (total_open_time, active_time) pair a consumer has read
\* off one returned record is the pair of one state the locked section left the
\* record in.
C3_AtomicRead ==
    reader.pc = "done" =>
        <<reader.seen.total_open_time, reader.seen.active_time>> \in reader.cands

\* C4. The accessors return copies: a record handed to a consumer keeps the
\* value it had when it was returned.
C4_ReturnedCopies ==
    reader.pc # "idle" =>
        \A h \in reader.refs : Referent(reader, h) = reader.snap[h]

\* C5. With a source that reports one focused handle per cycle (the
\* simulation), a completed cycle leaves at most one record of the whole map
\* with is_active = true.
C5_SingleActive ==
    [][\A t \in Threads :
        (simulation_mode /\ update_windows(t)) =>
            Cardinality({h \in DOMAIN windows' : windows'[h].is_active}) <= 1]_vars

\* C6. Single focus: at most one visible record has is_active = true, in
\* simulation mode and in native mode.
C6_SingleFocus ==
    Cardinality({h \in DOMAIN windows :
                    windows[h].is_visible /\ windows[h].is_active}) <= 1

C8_LoopSurvives ==
    /\ [][\A t \in Threads :
            (pc[t] # "done" /\ pc'[t] = "done") => (pc[t] = "top" /\ ~running)]_vars
    /\ \A t \in Threads :
            (cycle[t] = "raised") ~>
                (pc[t] \in {"poll", "done"} \/ now = MaxTime)

\* C8: a cycle raised, and the loop thread is in the handler's sleep with the
\* engine still running.
C8_Witness ==
    \E t \in Threads : cycle[t] = "raised" /\ pc[t] = "sleep" /\ running

\* C9. A failed cycle never partially mutates the map: a step in which a cycle
\* raises (in the source call or inside the locked section) leaves the map as
\* it was.
C9_FailedCycleNoMutation ==
    [][\A t \in Threads :
        (poll_raise(t) \/ update_raise(t)) => windows' = windows]_vars

\* C10. Idempotent start: start() called while the engine is running creates
\* no thread, leaves the set of running loops as it was, and changes neither
\* the running flag nor the previous-cycle timestamp.
C10_IdempotentStart ==
    [][(start /\ running) =>
        /\ pc' = pc
        /\ thread' = thread
        /\ LiveThreads' = LiveThreads
        /\ running' = running
        /\ last_update_time' = last_update_time]_vars

\* C10: start() has been called on a running engine with one loop running.
C10_Witness ==
    /\ log = "TimeTracker already running"
    /\ running
    /\ Cardinality(LiveThreads) = 1

\* The loop threads that have read running = true at the top of the loop and
\* are inside a reconciliation cycle.
InCycle == {t \in Threads : pc[t] \in {"poll", "locking", "locked", "sleep"}}

\* C11. Single writer: at most one execution context runs the reconciliation
\* loop, under any sequence of start() and stop() calls, a stop() whose join
\* timed out followed by a new start() included.
C11_SingleLoop == Cardinality(InCycle) <= 1

\* C12. stop() on an engine that is not running (never started, or already
\* stopped) returns at once, without entering the join, and leaves the running
\* flag, the thread reference and the map as they were; so does a second
\* consecutive stop().
C12_StopNotRunning ==
    [][(stop /\ ~running) =>
        /\ running' = running
        /\ thread' = thread
        /\ windows' = windows
        /\ pc' = pc
        /\ ctl' = "idle"
        /\ now' = now]_vars

\* C12: stop() has been called on an engine that was started and stopped
\* before, with records in the map.
C12_Witness ==
    /\ log = "TimeTracker not running"
    /\ ~running
    /\ thread # NoThread
    /\ windows # <<>>

\* C13. Cooperative stop: the steps of stop() touch no loop thread, the lock,
\* the locals of a cycle or the map (a cycle in progress is not interrupted); a
\* loop thread that reads running = false at the top of the loop ends there
\* without starting a cycle; and when source calls return, a loop thread of a
\* stopped engine ends, unless the engine is started again or the clock of
\* the model cannot advance through the thread's sleep.
C13_CooperativeStop ==
    /\ [][(stop \/ stop_joined \/ stop_timeout) =>
            /\ pc' = pc
            /\ lock' = lock
            /\ windows' = windows
            /\ <<interval, current_windows_list, active_hwnd>>' =
                    <<interval, current_windows_list, active_hwnd>>]_vars
    /\ [][\A t \in Threads :
            (pc[t] = "top" /\ ~running /\ pc'[t] # "top") => pc'[t] = "done"]_vars
    /\ \A t \in Threads :
            (~running /\ (t \in InCycle \/ pc[t] = "top")) ~>
                (pc[t] = "done" \/ running \/ (pc[t] = "sleep" /\ now = MaxTime))

\* C13: stop() was called while a cycle was in progress; the loop thread holds
\* the lock and goes on with the cycle while stop() waits in the join.
C13_Witness ==
    /\ ~running
    /\ ctl = "joining"
    /\ \E t \in Threads : pc[t] = "locked" /\ lock = t

\* C14. stop() always terminates: a stop() waiting in the join returns by the
\* time its timeout has passed (as long as the clock of the model reaches the
\* deadline), with running = false; a join that timed out waits no longer
\* than its deadline and leaves the loop thread where it was, alive.
C14_StopTerminates ==
    /\ [][(stop_joined \/ stop_timeout) => (ctl' = "idle" /\ ~running')]_vars
    /\ [][stop_timeout =>
            /\ pc' = pc
            /\ pc'[thread] # "done"
            /\ now' <= Max(now, join_deadline)]_vars
    /\ (ctl = "joining") ~> (ctl = "idle" \/ join_deadline > MaxTime)

\* C14: stop() has returned with the loop thread still blocked in the source
\* call.
C14_Witness ==
    /\ log = "TimeTracker stopped"
    /\ ctl = "idle"
    /\ ~running
    /\ thread # NoThread
    /\ pc[thread] = "poll"

\* C15. clear() empties the map: in the state it leaves, get_all_windows()
\* returns no record, get_window(id) returns None for every id, and get_stats()
\* counts 0 windows and 0 visible windows; and a record leaves the map only in
\* a clear() step.
C15_ClearEmpties ==
    /\ [][clear =>
            /\ windows_values' = {}
            /\ \A h \in env.hwnds : windows_get(h)' = None
            /\ total_windows' = 0
            /\ visible_windows' = 0]_vars
    /\ [][(\E h \in DOMAIN windows : h \notin DOMAIN windows') => clear]_vars

\* C15: the map is empty after a completed cycle of the simulation, whose
\* snapshots are never empty: clear() has emptied it.
C15_Witness ==
    /\ simulation_mode
    /\ windows = <<>>
    /\ \E t \in Threads : cycle[t] = "ok" /\ pc[t] = "sleep"

\* C16. Ghost records are frozen: a completed cycle whose snapshot does not
\* contain a tracked handle leaves that record in the map with is_visible =
\* false and every other field (title, process_name, first_seen, last_seen,
\* total_open_time, active_time, is_active) as it was, and get_window still
\* returns it.
C16_GhostFrozen ==
    [][\A t \in Threads :
        update_windows(t) =>
            \A h \in DOMAIN windows \ current_hwnds(current_windows_list[t]) :
                /\ h \in DOMAIN windows'
                /\ windows'[h] = [windows[h] EXCEPT !.is_visible = FALSE]
                /\ windows_get(h)' = windows'[h]]_vars

\* C16: a ghost that kept is_active = true and the last_seen of its last
\* cycle, beside a visible record seen later.
C16_Witness ==
    \E h, g \in DOMAIN windows :
        /\ ~windows[h].is_visible
        /\ windows[h].is_active
        /\ windows[g].is_visible
        /\ windows[h].last_seen < windows[g].last_seen

\* C17. The lock is never held across a source call: a loop thread inside the
\* source call does not hold the lock, and the lock is held only by a thread
\* inside the with block, so a reader can take it while the source call is
\* blocked.
C17_NoLockAcrossSource ==
    /\ \A t \in Threads : pc[t] = "poll" => lock # t
    /\ lock # NoThread => pc[lock] = "locked"

\* C17: a source call is in progress on a map that holds records, and the
\* lock is free.
C17_Witness ==
    /\ \E t \in Threads : pc[t] = "poll"
    /\ lock = NoThread
    /\ windows # <<>>

\* C18. total_open_time never decreases: in every step that is not clear(),
\* each record stays in the map with a total_open_time at least what it was
\* (larger when the window is present in a cycle, equal while it is a ghost,
\* now - first_seen when it reappears).
C18_TotalMonotone ==
    [][(~clear) =>
        \A h \in DOMAIN windows :
            /\ h \in DOMAIN windows'
            /\ windows'[h].total_open_time >= windows[h].total_open_time]_vars

\* C18: a visible record whose total_open_time has grown over its cycles.
C18_Witness ==
    \E h \in DOMAIN windows :
        /\ windows[h].is_visible
        /\ windows[h].total_open_time >= 2
        /\ windows[h].total_open_time = now - windows[h].first_seen

\* C19. A record created in a cycle that reports its window focused is credited
\* with the cycle's interval: after the cycle in which a handle is first
\* observed, and observed focused, its record has is_active = true, is_visible
\* = true and active_time = interval.
C19_NewFocusedCredited ==
    [][\A t \in Threads :
        update_windows(t) =>
            \A k \in 1..Len(current_windows_list[t]) :
                LET e == current_windows_list[t][k]
                    focused == IF simulation_mode THEN e.hwnd = active_hwnd[t]
                               ELSE e.is_active
                IN  (e.hwnd \notin DOMAIN windows /\ focused) =>
                        /\ windows'[e.hwnd].is_active
                        /\ windows'[e.hwnd].is_visible
                        /\ windows'[e.hwnd].active_time = interval[t]]_vars

\* C20. Source selection: create_window_tracker() returns the Windows tracker
\* whenever its is_supported() is true, else the macOS tracker when its
\* is_supported() is true, else raises; and the tracker an engine was
\* constructed with has is_supported() = true.
C20_FactoryPriority ==
    LET p == env.platform
        r == create_window_tracker(p)
    IN  /\ WindowsWindowTracker_is_supported(p) => r = "WindowsWindowTracker"
        /\ (~WindowsWindowTracker_is_supported(p) /\ MacOSWindowTracker_is_supported(p))
                => r = "MacOSWindowTracker"
        /\ (~WindowsWindowTracker_is_supported(p) /\ ~MacOSWindowTracker_is_supported(p))
                => r = "RuntimeError"
        /\ r # "RuntimeError" => is_supported(r, p)
        /\ window_tracker \in {"WindowsWindowTracker", "MacOSWindowTracker"}
                => is_supported(window_tracker, p)

\* C20: an engine running on Windows with both import groups available holds
\* the Windows tracker and has tracked a window.
C20_Witness ==
    /\ env.platform.platform = "win32"
    /\ env.platform.MACOS_AVAILABLE
    /\ window_tracker = "WindowsWindowTracker"
    /\ windows # <<>>

C22_EqualityByHwnd ==
    reader.pc = "compared" =>
        LET a == reader.seen.a
            b == reader.seen.b
        IN  IF b.class = "WindowInfo"
            THEN /\ reader.seen.eq <=> (a.value.hwnd = b.value.hwnd)
                 /\ reader.seen.eq => reader.seen.hash_a = reader.seen.hash_b
            ELSE ~reader.seen.eq

\* C22: two records with the same hwnd and different titles, times and flags
\* have been compared equal.
C22_Witness ==
    /\ reader.pc = "compared"
    /\ reader.seen.eq
    /\ reader.seen.a.value.title # reader.seen.b.value.title
    /\ reader.seen.a.value.first_seen # reader.seen.b.value.first_seen
    /\ reader.seen.a.value.is_active # reader.seen.b.value.is_active

\* C23. A completed cycle refreshes the display fields of every record that
\* was already tracked and is in the snapshot: its title and its process_name
\* are the ones the snapshot entry reports, and is_visible is true.
C23_DisplayFieldsRefreshed ==
    [][\A t \in Threads :
        update_windows(t) =>
            \A k \in 1..Len(current_windows_list[t]) :
                LET e == current_windows_list[t][k] IN
                e.hwnd \in DOMAIN windows =>
                    /\ windows'[e.hwnd].title = e.title
                    /\ windows'[e.hwnd].process_name = e.process_name
                    /\ windows'[e.hwnd].is_visible]_vars

C25_FirstSeenOnce ==
    [][(~clear) =>
        \A h \in DOMAIN windows :
            /\ h \in DOMAIN windows'
            /\ windows'[h].first_seen = windows[h].first_seen]_vars

\* C25: a record seen again two units of time after it was created, with the
\* first_seen of its creation, beside a record created later.
C25_Witness ==
    \E h, g \in DOMAIN windows :
        /\ windows[h].is_visible
        /\ windows[h].last_seen >= windows[h].first_seen + 2
        /\ windows[g].first_seen > windows[h].first_seen

\* C26. Every tracked record has first_seen <= last_seen: records just created
\* (by either branch), records updated since, and ghosts.
C26_FirstSeenBeforeLastSeen ==
    \A h \in DOMAIN windows : windows[h].first_seen <= windows[h].last_seen

\* C26: a record just created, between whose two datetime.now() calls the
\* clock advanced; and a ghost.
C26_Witness ==
    \E h, g \in DOMAIN windows :
        /\ windows[h].total_open_time = 0
        /\ windows[h].first_seen < windows[h].last_seen
        /\ ~windows[g].is_visible

\* C27. last_seen never decreases between a record's creation and clear(): a
\* completed cycle moves it to the time of the cycle when the window is in the
\* snapshot and leaves it when the window is absent, and a cycle that fails
\* leaves it as it was.
C27_LastSeenMonotone ==
    /\ [][(~clear) =>
            \A h \in DOMAIN windows :
                /\ h \in DOMAIN windows'
                /\ windows'[h].last_seen >= windows[h].last_seen]_vars
    /\ [][\A t \in Threads :
            update_windows(t) =>
                \A h \in DOMAIN windows :
                    IF h \in current_hwnds(current_windows_list[t])
                    THEN windows'[h].last_seen >= now
                    ELSE windows'[h].last_seen = windows[h].last_seen]_vars
    /\ [][\A t \in Threads :
            (poll_raise(t) \/ update_raise(t)) =>
                \A h \in DOMAIN windows :
                    windows'[h].last_seen = windows[h].last_seen]_vars

\* C28: after every reconciliation cycle a record has is_active = TRUE only
\* if its identifier equals the focused identifier get_active_window_handle()
\* returned in that same cycle.
C28_ActiveMatchesHandle ==
    [][\A t \in Threads :
          update_windows(t) =>
              \A h \in DOMAIN windows' :
                  windows'[h].is_active => h = active_hwnd[t]]_vars

\* A loop thread start() has created and that has not begun a cycle yet.
FreshStart(t) == pc[t] = "top" /\ cycle[t] = "none"

\* Every loop thread other than t has exited or was never created.
OthersExited(t) == \A u \in Threads \ {t} : pc[u] \in {"none", "done"}

\* C29: start() records the current time as the previous-cycle timestamp, and
\* with every earlier loop exited nothing changes that timestamp before the
\* first cycle, whose interval is therefore the time since start(): time the
\* engine was stopped is in no interval.
C29_StartResetsInterval ==
    [][/\ (start /\ ~running) =>
            /\ last_update_time' = now'
            /\ pc'[thread'] = "top" /\ cycle'[thread'] = "none"
       /\ \A t \in Threads :
            (FreshStart(t) /\ OthersExited(t)) =>
                /\ FreshStart(t)' => last_update_time' = last_update_time
                /\ (loop_top(t) /\ running) =>
                       interval'[t] = now - last_update_time]_vars

\* A first cycle after a restart: records of the earlier run exist, time has
\* passed since they were last seen, and the cycle's interval is zero.
C29_Witness ==
    \E t \in Threads :
        /\ pc[t] = "poll"
        /\ OthersExited(t)
        /\ log = "TimeTracker started"
        /\ interval[t] = 0
        /\ windows # <<>>
        /\ \A h \in DOMAIN windows : windows[h].last_seen < now

\* C30: when the platform enumeration fails, enumerate_windows() does not
\* raise and the snapshot it returns is empty, also when windows had been
\* collected before the failure.
C30_EmptyOnFailure ==
    (reader.pc = "enumerated" /\ reader.seen.failed) =>
        /\ ~reader.seen.result.raised
        /\ reader.seen.result.windows = <<>>

\* C31 as stated: after a completed cycle every record that was already
\* tracked and is in the cycle's snapshot has
\* total_open_time = last_seen - first_seen.
C31_TotalIsSpan ==
    [][\A t \in Threads :
          update_windows(t) =>
              \A h \in current_hwnds(current_windows_list[t]) \cap DOMAIN windows :
                  windows'[h].total_open_time =
                      windows'[h].last_seen - windows'[h].first_seen]_vars

\* C31, amended: total_open_time is derived, not accumulated.  After a
\* completed cycle every record that was already tracked and is in the
\* cycle's snapshot has total_open_time = (a clock reading of this cycle) -
\* first_seen, where the reading is the one that follows the reading stored in
\* last_seen: it lies between last_seen - first_seen and now - first_seen and
\* exceeds the former by no more than the clock advances between two
\* successive readings, whatever the interval of this cycle, the earlier
\* intervals and the earlier value of total_open_time were.
C31_TotalDerived ==
    [][\A t \in Threads :
          update_windows(t) =>
              \A h \in current_hwnds(current_windows_list[t]) \cap DOMAIN windows :
                  LET w == windows'[h] IN
                  /\ w.first_seen = windows[h].first_seen
                  /\ w.last_seen >= now
                  /\ w.total_open_time >= w.last_seen - w.first_seen
                  /\ w.total_open_time <= w.last_seen - w.first_seen + env.jitter
                  /\ w.total_open_time <= now' - w.first_seen]_vars

\* C31: an updated record whose total_open_time was derived from a reading
\* later than its last_seen, and differs from the time it was credited.
C31_Witness ==
    \E h \in DOMAIN windows :
        /\ windows[h].total_open_time > windows[h].last_seen - windows[h].first_seen
        /\ windows[h].is_visible
        /\ windows[h].active_time # windows[h].total_open_time

\* C32. Readers are never blocked for ever: the lock is held only by a thread
\* inside a with block, a lock that is held is released, also when the block
\* of the loop raises, and every call of clear(), get_all_windows(),
\* get_window() or get_stats() that waits for the lock acquires it and returns.
C32_ReadersNotBlocked ==
    /\ [](\A t \in Threads : lock = t => pc[t] = "locked")
    /\ [](lock \in Consumers => reader.pc = "inside")
    /\ [][\A t \in Threads : update_raise(t) => lock' = NoThread]_vars
    /\ \A t \in Threads : (lock = t) ~> (lock = NoThread)
    /\ \A op \in LockedOps :
            (reader.pc = "waiting" /\ reader.seen.op = op) ~> (reader.pc = "idle")

\* C32: a call waits for the lock while the loop thread holds it.
C32_Witness ==
    /\ reader.pc = "waiting"
    /\ lock \in Threads
    /\ pc[lock] = "locked"
    /\ windows # <<>>

\* C33. The simulated source's focus is consistent with its snapshot: after
\* any sequence of update(), add_visitor() and remove_person() calls,
\* current_focus_index is within 0..len(people)-1, and an update() that has
\* returned did not raise and returned as the active handle the handle of one
\* of the entries of the snapshot it returned.
C33_FocusConsistent ==
    /\ simulation.current_focus_index \in 0..(Len(simulation.people) - 1)
    /\ simulation.upd.pc # "raised"
    /\ simulation.upd.pc = "returned" =>
            \E k \in 1..Len(simulation.upd.windows) :
                simulation.upd.windows[k].hwnd = simulation.upd.active_hwnd

\* C33: the focus was on the last person, a person was removed, and update()
\* has returned the handle of the person who is last now.
C33_Witness ==
    /\ simulation.ret.op = "remove_person"
    /\ simulation.ret.value # None
    /\ simulation.upd.pc = "returned"
    /\ simulation.current_focus_index = Len(simulation.people) - 1
    /\ Len(simulation.people) = 3
    /\ simulation.calls = MaxCalls

\* stop() has returned and start() has not been called since.
Stopped == ~running /\ ctl = "idle" /\ log = "TimeTracker stopped"

\* C34. Once stop() has returned, the reconciliation loop performs no further
\* mutation of the map: no locked section of a loop thread changes the map
\* while the engine is stopped.
C34_NoMutationAfterStop ==
    [][\A t \in Threads :
          (Stopped /\ (update_windows(t) \/ update_raise(t))) =>
              windows' = windows]_vars

\* The sum of active_time over the records of the map w with handles in hs.
RECURSIVE SumActive(_, _)
SumActive(w, hs) ==
    IF hs = {} THEN 0
    ELSE LET h == CHOOSE x \in hs : TRUE
         IN  w[h].active_time + SumActive(w, hs \ {h})

\* C35. Focus time is never double-counted: in simulation mode a cycle adds
\* at most its interval to the sum of active_time over all tracked records,
\* so that the sum never exceeds the sum of the intervals of the cycles since
\* the last clear().
C35_NoDoubleCount ==
    [][\A t \in Threads :
          (simulation_mode /\ (update_windows(t) \/ update_raise(t))) =>
              SumActive(windows', DOMAIN windows')
                  <= SumActive(windows, DOMAIN windows) + interval[t]]_vars

\* The handles a cycle's snapshot reports focused.
Focused(t) ==
    {current_windows_list[t][k].hwnd : k \in
        {j \in 1..Len(current_windows_list[t]) :
            IF simulation_mode
            THEN current_windows_list[t][j].hwnd = active_hwnd[t]
            ELSE current_windows_list[t][j].is_active}}

\* C36. get_stats() never reports a window that has disappeared as the
\* active one: after a cycle, an active_window that is not None is the title
\* of a visible record that the cycle's snapshot reported focused, and
\* active_window is None when the snapshot reported no focused window.
C36_ActiveWindowIsPresent ==
    [][\A t \in Threads :
          update_windows(t) =>
              \A v \in active_window(windows') :
                  /\ v # None =>
                        \E h \in Focused(t) :
                            /\ windows'[h].title = v
                            /\ windows'[h].is_visible
                  /\ Focused(t) = {} => v = None]_vars

\* C37. add_simulation_visitor() and remove_simulation_person() called from
\* the consumer thread while the tracking thread is inside update() never
\* make update() raise an index error and never make it return an active
\* handle that belongs to no entry of the snapshot it returns.
C37_RaceFree ==
    /\ simulation.upd.pc # "raised"
    /\ simulation.upd.pc = "returned" =>
            simulation.upd.active_hwnd \in
                {simulation.upd.windows[k].hwnd : k \in 1..Len(simulation.upd.windows)}

\* C38. The simulated population stays well-formed under add_visitor() and
\* remove_person() calls on a default-constructed HouseSimulation: the number
\* of people stays between 2 and 9, no two people share a name, add_visitor()
\* returns None and changes nothing when all 9 people are present, and
\* remove_person() returns None and changes nothing when only 2 remain.
C38_PopulationWellFormed ==
    /\ [](/\ Len(simulation.people) \in 2..9
          /\ \A j, k \in 1..Len(simulation.people) :
                j # k => simulation.people[j].name # simulation.people[k].name)
    /\ [][/\ (add_visitor /\ Len(simulation.people) = 9) =>
                /\ simulation'.ret = [op |-> "add_visitor", value |-> None]
                /\ simulation'.people = simulation.people
                /\ simulation'.current_focus_index = simulation.current_focus_index
          /\ (remove_person /\ Len(simulation.people) = 2) =>
                /\ simulation'.ret = [op |-> "remove_person", value |-> None]
                /\ simulation'.people = simulation.people
                /\ simulation'.current_focus_index = simulation.current_focus_index
          /\ (add_visitor /\ Len(simulation.people) < 9) =>
                /\ simulation'.ret.value # None
                /\ Len(simulation'.people) = Len(simulation.people) + 1
          /\ (remove_person /\ Len(simulation.people) > 2) =>
                /\ simulation'.ret.value # None
                /\ Len(simulation'.people) = Len(simulation.people) - 1]_vars

\* C38: remove_person() has returned None on a house of two people.
C38_Witness ==
    /\ Len(simulation.people) = 2
    /\ simulation.ret = [op |-> "remove_person", value |-> None]

====
